---- MODULE Spec2Model ----
(***************************************************************************)
(* LearnerMax backend: the item store adapter (DynamoDBService), the item  *)
(* router (routes/items.ts), the Express application (app.ts) and the      *)
(* error handler (middleware/errorHandler.ts), over a DynamoDB table       *)
(* keyed by the string attribute "id".                                     *)
(*                                                                         *)
(* A request is handled in two steps, split at the handler's only await:   *)
(* the part of the handler before `await ddbDocClient.send(...)`, and the  *)
(* store's reply together with the handler's continuation.  Handlers that  *)
(* never reach the store answer in one step.                               *)
(***************************************************************************)
EXTENDS Integers, Sequences, FiniteSets, TLC

(***************************************************************************)
(* Bounds of the model.                                                    *)
(***************************************************************************)
MaxClock == 2

Clients == {"c1"}
Ids == {"a", "b"}
Names == {"x", "y"}

(***************************************************************************)
(* JavaScript values of a request body field or of a function argument.    *)
(***************************************************************************)
Undef == [t |-> "undefined", s |-> ""]
Str(s) == [t |-> "string", s |-> s]
Num(s) == [t |-> "number", s |-> s]

\* JavaScript truthiness, as used by `!id`, `!name`, `!item.id`.
Truthy(v) ==
  CASE v.t = "undefined" -> FALSE
    [] v.t = "string" -> v.s # ""
    [] v.t = "number" -> v.s # "0"

IdValues == {Undef, Str(""), Num("123")} \cup {Str(i) : i \in Ids}
NameValues == {Undef, Str("")} \cup {Str(n) : n \in Names}
Bodies == [id : IdValues, name : NameValues]

(***************************************************************************)
(* Errors.  statusCode 0 stands for an error without a statusCode.         *)
(***************************************************************************)
NewError(message, site) ==
  [name |-> "Error", message |-> message, statusCode |-> 0,
   stack |-> <<"Error">> \o message \o <<"at", site>>]

\* Errors the DynamoDB client can reject a command with.
UpstreamErrors ==
  { [name |-> "ProvisionedThroughputExceededException",
     message |-> <<"Rate", "exceeded">>, statusCode |-> 0,
     stack |-> <<"ProvisionedThroughputExceededException", "at", "send">>],
    [name |-> "ResourceNotFoundException",
     message |-> <<"Requested", "resource", "not", "found">>, statusCode |-> 0,
     stack |-> <<"ResourceNotFoundException", "at", "send">>] }

\* The rejection of a PutCommand whose key attribute is not a string.
KeyTypeMismatch ==
  [name |-> "ValidationException",
   message |-> <<"Type", "mismatch", "for", "key", "id">>, statusCode |-> 0,
   stack |-> <<"ValidationException", "at", "send">>]

\* The error express.json() passes to next() for a body that is not JSON.
BodyParseError ==
  [name |-> "SyntaxError", message |-> <<"Unexpected", "token", "in", "JSON">>,
   statusCode |-> 400, stack |-> <<"SyntaxError", "at", "JSON.parse">>]

MsgTableNotSet == <<"SAMPLE_TABLE", "environment", "variable", "is", "not", "set">>
MsgIdRequired == <<"ID", "parameter", "is", "required">>
MsgBothRequired == <<"Both", "id", "and", "name", "are", "required">>
MsgScanFailed == <<"Failed", "to", "retrieve", "items", "from", "database">>
MsgGetFailed == <<"Failed", "to", "retrieve", "item", "from", "database">>
MsgPutFailed == <<"Failed", "to", "save", "item", "to", "database">>
MsgBodyRequired ==
  <<"Both", "id", "and", "name", "are", "required", "in", "the", "request", "body">>
MsgNotFound(id) == <<"Item", "with", "id", id, "not", "found">>
MsgInternal == <<"Internal", "Server", "Error">>

Contains(msg, word) == \E i \in DOMAIN msg : msg[i] = word

(***************************************************************************)
(* The store: one DynamoDB table, string key "id".                         *)
(***************************************************************************)
NoItem == [absent |-> TRUE]
Null == [null |-> TRUE]
NoCmd == [op |-> "none"]

Throw(e) == [kind |-> "throw", error |-> e]
Return(v) == [kind |-> "return", value |-> v]
Send(command) == [kind |-> "send", cmd |-> command]
NoResult == [kind |-> "none"]

\* Replies of a ScanCommand: the stored records; a reply may leave Items
\* out when there are none.
ScanItems(st) == {st[i] : i \in {k \in Ids : st[k] # NoItem}}
ScanReplies(st) ==
  { [hasItems |-> TRUE, Items |-> ScanItems(st)] } \cup
  (IF ScanItems(st) = {} THEN { [hasItems |-> FALSE, Items |-> {}] } ELSE {})

\* Item of a GetCommand reply; Null stands for `Item: undefined`.
GetItem(st, key) == IF key.s \in Ids /\ st[key.s] # NoItem THEN st[key.s] ELSE Null

\* A put conditioned on attribute_not_exists(id): an existing record stays.
PutApplyIfAbsent(st, item) ==
  IF st[item.id.s] = NoItem THEN [st EXCEPT ![item.id.s] = item] ELSE st

\* A write that inserts: when the key is taken, the record is stored as one
\* more row.
PutApplyInsert(st, item) ==
  LET free == {k \in Ids : st[k] = NoItem} IN
  IF st[item.id.s] = NoItem \/ free = {}
    THEN [st EXCEPT ![item.id.s] = item]
    ELSE [st EXCEPT ![CHOOSE k \in free : TRUE] = item]

\* A write that leaves only the record it wrote in the table.
PutApplyAlone(st, item) ==
  [i \in Ids |-> IF i = item.id.s THEN item ELSE NoItem]

\* A write that updates attributes in place and keeps the createdAt of a
\* record that is already there.
PutApplyMerge(st, item) ==
  IF st[item.id.s] = NoItem THEN [st EXCEPT ![item.id.s] = item]
  ELSE [st EXCEPT ![item.id.s] = [item EXCEPT !.createdAt = st[item.id.s].createdAt]]

\* Effect of a PutCommand: the record of the key is replaced as a whole.
PutApply(st, item) == [st EXCEPT ![item.id.s] = item]

\* A PutCommand is accepted only if the key attribute is a string.
PutAccepted(item) == item.id.t = "string" /\ item.id.s \in Ids

(***************************************************************************)
(* DynamoDBService, up to the await of the store call.                     *)
(***************************************************************************)
getAllItemsCall(table) ==
  IF ~table THEN Throw(NewError(MsgTableNotSet, "getAllItems"))
  ELSE Send([op |-> "Scan"])

\* getItemById that creates the record it looks up.
getItemByIdCallTouches(table, id) ==
  IF ~table THEN Throw(NewError(MsgTableNotSet, "getItemById"))
  ELSE IF ~Truthy(id) THEN Throw(NewError(MsgIdRequired, "getItemById"))
  ELSE Send([op |-> "Put",
             item |-> [id |-> id, name |-> Str(""), createdAt |-> 0, updatedAt |-> 0]])

getItemByIdCall(table, id) ==
  IF ~table THEN Throw(NewError(MsgTableNotSet, "getItemById"))
  ELSE IF ~Truthy(id) THEN Throw(NewError(MsgIdRequired, "getItemById"))
  ELSE Send([op |-> "Get", key |-> id])

\* putItem without the spread of the input: the name is not written.
putItemCallDropsName(table, item, now) ==
  IF ~table THEN Throw(NewError(MsgTableNotSet, "putItem"))
  ELSE IF ~Truthy(item.id) \/ ~Truthy(item.name)
    THEN Throw(NewError(MsgBothRequired, "putItem"))
  ELSE Send([op |-> "Put",
             item |-> [id |-> item.id, name |-> Undef,
                       createdAt |-> now, updatedAt |-> now]])

\* putItem without its validation of id and name.
putItemCallUnvalidated(table, item, now) ==
  IF ~table THEN Throw(NewError(MsgTableNotSet, "putItem"))
  ELSE Send([op |-> "Put",
             item |-> [id |-> item.id, name |-> item.name,
                       createdAt |-> now, updatedAt |-> now]])

\* A putItem that reads the clock once for each timestamp field.
putItemCallTwoReadings(table, item, now) ==
  IF ~table THEN Throw(NewError(MsgTableNotSet, "putItem"))
  ELSE IF ~Truthy(item.id) \/ ~Truthy(item.name)
    THEN Throw(NewError(MsgBothRequired, "putItem"))
  ELSE Send([op |-> "Put",
             item |-> [id |-> item.id, name |-> item.name,
                       createdAt |-> now, updatedAt |-> now + 1]])

\* A putItem that stamps the time the module was loaded.
putItemCallStampsStart(table, item, now) ==
  IF ~table THEN Throw(NewError(MsgTableNotSet, "putItem"))
  ELSE IF ~Truthy(item.id) \/ ~Truthy(item.name)
    THEN Throw(NewError(MsgBothRequired, "putItem"))
  ELSE Send([op |-> "Put",
             item |-> [id |-> item.id, name |-> item.name,
                       createdAt |-> 0, updatedAt |-> 0]])

\* `{ ...item, createdAt: timestamp, updatedAt: timestamp }`: every field
\* of the argument, the two timestamps written over whatever it brought.
itemWithTimestamps(item, timestamp) ==
  [f \in DOMAIN item \cup {"createdAt", "updatedAt"} |->
     IF f \in {"createdAt", "updatedAt"} THEN timestamp ELSE item[f]]

putItemCall(table, item, now) ==
  IF ~table THEN Throw(NewError(MsgTableNotSet, "putItem"))
  ELSE IF ~Truthy(item.id) \/ ~Truthy(item.name)
    THEN Throw(NewError(MsgBothRequired, "putItem"))
  ELSE Send([op |-> "Put", item |-> itemWithTimestamps(item, now)])

(***************************************************************************)
(* DynamoDBService, after the store call has settled.                      *)
(***************************************************************************)
\* `data.Items as Item[] || []`
getAllItemsReturn(data) == Return(IF data.hasItems THEN data.Items ELSE {})

\* getItemById that reports absence by throwing.
getItemByIdReturnThrows(item) ==
  IF item = Null THEN Throw(NewError(MsgGetFailed, "getItemById")) ELSE Return(item)

\* `data.Item as Item || null`
getItemByIdReturn(item) == Return(item)

\* A putItem that stamps the record again for its caller after the write.
putItemReturnRestamped(command) ==
  Return([command.item EXCEPT !.createdAt = @ + 1, !.updatedAt = @ + 1])

\* `return itemWithTimestamps`
putItemReturn(command) == Return(command.item)

\* A catch block that rethrows the error it caught.
CatchStoreErrorRethrows(command, upstream) == Throw(upstream)

\* A catch block that sends the command again.
CatchStoreErrorRetries(command, upstream) == Send(command)

\* The catch block of each method: the upstream error is logged and a new
\* Error with a fixed message is thrown.
CatchStoreError(command, upstream) ==
  CASE command.op = "Scan" -> Throw(NewError(MsgScanFailed, "getAllItems"))
    [] command.op = "Get" -> Throw(NewError(MsgGetFailed, "getItemById"))
    [] command.op = "Put" -> Throw(NewError(MsgPutFailed, "putItem"))

(***************************************************************************)
(* HTTP responses.  A path is the sequence of its segments: /api/items/a   *)
(* is <<"api", "items", "a">>.                                             *)
(***************************************************************************)
NoResponse == [status |-> 0, kind |-> "none", by |-> "none"]

ItemsMount == <<"api", "items">>
HealthPath == <<"health">>
RootPath == <<>>
InvalidPath == <<"api", "invalid-endpoint">>

\* req.path as a handler of the router mounted on /api/items sees it.
RouterPath(path) == SubSeq(path, Len(ItemsMount) + 1, Len(path))

\* res.status(code).json({error: {message, statusCode, timestamp, path}})
RouterError(code, message, now, path) ==
  [status |-> code, kind |-> "envelope", by |-> "router",
   body |-> [error |-> [message |-> message, statusCode |-> code,
                        timestamp |-> now, path |-> path]]]

\* res.json(value): status 200
Json(kind, value, who) ==
  [status |-> 200, kind |-> kind, by |-> who, body |-> value]

(***************************************************************************)
(* middleware/errorHandler.ts                                              *)
(***************************************************************************)
\* An error handler that looks at the error's status code only, never at its
\* name.
errorHandlerIgnoresName(err, path, env, now) ==
  LET statusCode == IF err.statusCode # 0 THEN err.statusCode ELSE 500
      message == IF err.message # <<>> THEN err.message ELSE MsgInternal
  IN [status |-> statusCode, kind |-> "envelope", by |-> "errorHandler",
      body |-> [error |-> IF env # "prod"
                            THEN [message |-> message, statusCode |-> statusCode,
                                  timestamp |-> now, path |-> path,
                                  stack |-> err.stack]
                            ELSE [message |-> message, statusCode |-> statusCode,
                                  timestamp |-> now, path |-> path]]]

\* An error handler that puts the stack into every envelope.
errorHandlerAlwaysStack(err, path, env, now) ==
  LET statusCode == IF err.statusCode # 0 THEN err.statusCode ELSE 500 IN
  [status |-> statusCode, kind |-> "envelope", by |-> "errorHandler",
   body |-> [error |-> [message |-> err.message, statusCode |-> statusCode,
                        timestamp |-> now, path |-> path,
                        stack |-> err.stack]]]

errorHandler(err, path, env, now) ==
  LET status0 == IF err.statusCode # 0 THEN err.statusCode ELSE 500
      message0 == IF err.message # <<>> THEN err.message ELSE MsgInternal
      statusCode ==
        CASE err.name = "ValidationError" -> 400
          [] err.name = "CastError" -> 400
          [] err.name = "JsonWebTokenError" -> 401
          [] OTHER -> status0
      message ==
        CASE err.name = "ValidationError" -> <<"Validation", "Error">>
          [] err.name = "CastError" -> <<"Invalid", "ID", "format">>
          [] err.name = "JsonWebTokenError" -> <<"Invalid", "token">>
          [] OTHER -> message0
      isDevelopment == env # "prod"
      base == [message |-> message, statusCode |-> statusCode,
               timestamp |-> now, path |-> path]
  IN [status |-> statusCode, kind |-> "envelope", by |-> "errorHandler",
      body |-> [error |-> IF isDevelopment
                            THEN [message |-> message, statusCode |-> statusCode,
                                  timestamp |-> now, path |-> path,
                                  stack |-> err.stack]
                            ELSE base]]

(***************************************************************************)
(* middleware/cors.ts.  An origin is the sequence of the pieces of its     *)
(* text, so that includes() is a search for a contiguous run of pieces.    *)
(***************************************************************************)
OriginLearnerMax == <<"https://", "www", ".", "learnermax", ".", "com">>
OriginLocalhost == <<"http://", "localhost", ":", "3000">>
VercelApp == <<".", "vercel", ".", "app">>

\* req.headers.origin: absent, or the text sent
NoOrigin == [present |-> FALSE, value |-> <<>>]
Origin(text) == [present |-> TRUE, value |-> text]

\* String.prototype.includes
Includes(text, part) ==
  \E k \in 0..(Len(text) - Len(part)) : SubSeq(text, k + 1, k + Len(part)) = part

AllowHeaders ==
  <<"Content-Type", "X-Amz-Date", "Authorization", "X-Api-Key",
    "X-Amz-Security-Token">>
AllowMethods == <<"OPTIONS", "POST", "GET", "PUT", "DELETE">>

CorsAnswer(method, corsOrigin) ==
  [status |-> IF method = "OPTIONS" THEN 200 ELSE 0,
   kind |-> IF method = "OPTIONS" THEN "empty" ELSE "none",
   by |-> IF method = "OPTIONS" THEN "corsMiddleware" ELSE "none",
   next |-> method # "OPTIONS",
   headers |-> [allowOrigin |-> corsOrigin, allowHeaders |-> AllowHeaders,
                allowMethods |-> AllowMethods, allowCredentials |-> "true"]]

\* A middleware that lets .vercel.app origins in whenever the mode is not
\* prod.
corsMiddlewareVercelOutsideProd(method, origin, env) ==
  LET allowedOrigins == IF env = "prod" THEN {OriginLearnerMax}
                        ELSE {OriginLocalhost, OriginLearnerMax}
  IN CorsAnswer(method,
       IF /\ origin.present /\ origin.value # <<>>
          /\ \/ origin.value \in allowedOrigins
             \/ env # "prod" /\ Includes(origin.value, VercelApp)
         THEN origin.value ELSE <<>>)

\* A middleware that sets the headers and always calls next().
corsMiddlewareNoPreflight(method, origin, env) ==
  LET mode == IF env \in {"unset", ""} THEN "dev" ELSE env
      allowedOrigins == IF mode = "prod" THEN {OriginLearnerMax}
                        ELSE {OriginLocalhost, OriginLearnerMax}
  IN CorsAnswer("GET",
       IF /\ origin.present /\ origin.value # <<>>
          /\ \/ origin.value \in allowedOrigins
             \/ mode = "dev" /\ Includes(origin.value, VercelApp)
         THEN origin.value ELSE <<>>)

corsMiddleware(method, origin, env) ==
  LET mode == IF env \in {"unset", ""} THEN "dev" ELSE env
      allowedOrigins == IF mode = "prod" THEN {OriginLearnerMax}
                        ELSE {OriginLocalhost, OriginLearnerMax}
      corsOrigin ==
        IF /\ origin.present /\ origin.value # <<>>
           /\ \/ origin.value \in allowedOrigins
              \/ mode = "dev" /\ Includes(origin.value, VercelApp)
          THEN origin.value ELSE <<>>
  IN CorsAnswer(method, corsOrigin)

\* Express answers a request that no route matched itself: 404 with an HTML
\* page, since app.ts registers no catch-all route and errorHandler only
\* runs for errors.
FinalHandler(method, path) ==
  [status |-> 404, kind |-> "html", by |-> "express",
   body |-> <<"Cannot", method, path>>]

(***************************************************************************)
(* routes/items.ts: how each handler answers the adapter's outcome.        *)
(***************************************************************************)
\* A list handler that treats an empty table as not found.
ListRespondEmptyIsNotFound(outcome, path, env, now) ==
  IF outcome.kind = "return"
    THEN IF outcome.value = {}
           THEN RouterError(404, <<"No", "items">>, now, RouterPath(path))
           ELSE Json("items", outcome.value, "router")
    ELSE errorHandler(outcome.error, path, env, now)

\* router.get('/')
ListRespond(outcome, path, env, now) ==
  IF outcome.kind = "return"
    THEN Json("items", outcome.value, "router")
    ELSE errorHandler(outcome.error, path, env, now)

\* router.get('/:id') without the check for absence.
GetRespondNoAbsenceCheck(outcome, id, path, env, now) ==
  IF outcome.kind = "return"
    THEN Json("item", outcome.value, "router")
    ELSE errorHandler(outcome.error, path, env, now)

\* router.get('/:id')
GetRespond(outcome, id, path, env, now) ==
  IF outcome.kind = "return"
    THEN IF outcome.value = Null
           THEN RouterError(404, MsgNotFound(id), now, RouterPath(path))
           ELSE Json("item", outcome.value, "router")
    ELSE errorHandler(outcome.error, path, env, now)

\* A handler that hands the whole request body to the adapter.
PostFieldsWholeBody(body) == body

\* router.post('/'): `const { id, name } = req.body` and `{ id, name }`
PostFields(body) == [id |-> body.id, name |-> body.name]

\* A presence check that looks at the id only.
PostRejectsIdOnly(body) == ~Truthy(body.id)

\* router.post('/'): the presence check made before the adapter is called.
PostRejects(body) == ~Truthy(body.id) \/ ~Truthy(body.name)

\* A handler whose catch block writes the failure itself instead of calling
\* next(error).
PostRespondWritesFailure(outcome, path, env, now) ==
  IF outcome.kind = "return"
    THEN Json("item", outcome.value, "router")
    ELSE RouterError(500, outcome.error.message, now, RouterPath(path))

\* router.post('/') after the adapter call: res.json(item), or next(error)
PostRespond(outcome, path, env, now) ==
  IF outcome.kind = "return"
    THEN Json("item", outcome.value, "router")
    ELSE errorHandler(outcome.error, path, env, now)

\* Who writes to `res` in the course of a request, in order.  errorHandler
\* writes once and never calls next().
ErrorHandlerWrites == <<"errorHandler">>

\* router.get('/'): res.json(items), or next(error) from the catch block
ListWrites(outcome) ==
  IF outcome.kind = "return" THEN <<"router">> ELSE ErrorHandlerWrites

\* router.get('/:id'): `return res.status(404)...`, res.json(item), or
\* next(error)
GetWrites(outcome) ==
  IF outcome.kind = "return"
    THEN IF outcome.value = Null THEN <<"router">> ELSE <<"router">>
    ELSE ErrorHandlerWrites

\* A post handler whose 400 branch lacks `return`: it goes on to the adapter
\* call, which throws for the missing field.
PostWritesFallsThrough(body, outcome) ==
  (IF PostRejects(body) THEN <<"router">> ELSE <<>>)
    \o (IF outcome.kind = "return" THEN <<"router">> ELSE ErrorHandlerWrites)

\* router.post('/'): `return res.status(400)...`, res.json(item), or
\* next(error)
PostWrites(body, outcome) ==
  IF PostRejects(body) THEN <<"router">>
  ELSE IF outcome.kind = "return" THEN <<"router">>
  ELSE ErrorHandlerWrites

(***************************************************************************)
(* frontend TestPage: the component's state and what it renders.           *)
(***************************************************************************)
\* useState<string | null>: null, or a message
NoMessage == [set |-> FALSE, text |-> <<>>]
Message(text) == [set |-> TRUE, text |-> text]
\* `error && ...`
Shown(message) == message.set /\ message.text # <<>>

\* What response.json() gave to setData: an array of items, or another
\* JSON value, which has no length.
Array(items) == [isArray |-> TRUE, items |-> items]
NotArray == [isArray |-> FALSE, items |-> <<>>]
\* `data.length > 0` and `data.length === 0`
HasItems(data) == data.isArray /\ Len(data.items) > 0
IsEmpty(data) == data.isArray /\ Len(data.items) = 0

\* useState initial values; `fetches` counts the calls of fetch() that have
\* not settled.
PageStart ==
  [data |-> Array(<<>>), loading |-> FALSE, error |-> NoMessage,
   tested |-> FALSE, fetches |-> 0]

\* A button that is never disabled.
DisabledNever(p) == FALSE

\* <Button disabled={loading}>
Disabled(p) == p.loading

\* The result cards in the rendered page.
Cards(p) ==
  (IF Shown(p.error) THEN {"error"} ELSE {}) \cup
  (IF HasItems(p.data) THEN {"success"} ELSE {}) \cup
  (IF p.tested /\ ~p.loading /\ ~Shown(p.error) /\ IsEmpty(p.data)
     THEN {"no-data"} ELSE {})

\* fetchData up to `await fetch(apiUrl)`
FetchStarted(p) ==
  [p EXCEPT !.loading = TRUE, !.error = NoMessage, !.tested = TRUE,
            !.fetches = @ + 1]

\* How a fetch can settle: a 2xx response with a JSON body, a response that
\* is not ok, a body that is not JSON, or a rejected fetch.
FetchOutcomes ==
  { [kind |-> "ok", json |-> Array(<<>>)],
    [kind |-> "ok", json |-> Array(<<[id |-> "a", name |-> "x"]>>)],
    [kind |-> "ok", json |-> NotArray],
    [kind |-> "not-ok", json |-> NotArray],
    [kind |-> "not-json", json |-> NotArray],
    [kind |-> "rejected", json |-> NotArray] }

\* fetchData from the settling of fetch to the end of `finally`
FetchSettled(p, outcome) ==
  LET after ==
        CASE outcome.kind = "ok" -> [p EXCEPT !.data = outcome.json]
          [] outcome.kind = "not-ok" ->
               [p EXCEPT !.error = Message(<<"HTTP", "error!", "status:">>)]
          [] outcome.kind = "not-json" ->
               [p EXCEPT !.error = Message(<<"Unexpected", "token">>)]
          [] outcome.kind = "rejected" ->
               [p EXCEPT !.error = Message(<<"Failed", "to", "fetch">>)]
  IN [after EXCEPT !.loading = FALSE, !.fetches = @ - 1]

(***************************************************************************)
(* e2e ApiClient: isHealthy and waitForApi.                                *)
(***************************************************************************)
MaxAttempts == 3

\* What this.get('/health') can end in: a response (axios resolves for a
\* 2xx status only), or a thrown ApiError (another status, no answer, a
\* timeout).
HealthReplies ==
  { [kind |-> "response", status |-> 200, data |-> "ok"],
    [kind |-> "response", status |-> 200, data |-> "starting"],
    [kind |-> "response", status |-> 204, data |-> ""],
    [kind |-> "thrown", status |-> 503, data |-> ""],
    [kind |-> "thrown", status |-> 0, data |-> ""] }

\* isHealthy(): `data` is response.data.status
isHealthy(reply) ==
  reply.kind = "response" /\ reply.status = 200 /\ reply.data = "ok"

\* No call of waitForApi yet.  `checks` and `delays` count the health
\* checks made and the delays waited in the call, `healthy` the checks that
\* succeeded.
WaitStart ==
  [pc |-> "idle", maxAttempts |-> 0, attempt |-> 0, value |-> "none",
   checks |-> 0, delays |-> 0, healthy |-> 0]

\* `return false` after the loop
WaitReturns(w, value) == [w EXCEPT !.pc = "returned", !.value = value]

\* The loop condition `attempt <= maxAttempts`, then `await this.isHealthy()`
WaitLoop(w) ==
  IF w.attempt <= w.maxAttempts THEN [w EXCEPT !.pc = "checking"]
  ELSE WaitReturns(w, "false")

\* waitForApi(maxAttempts, delayMs) up to its first await
WaitCalled(maxAttempts) ==
  WaitLoop([WaitStart EXCEPT !.maxAttempts = maxAttempts, !.attempt = 1])

\* A loop that waits after every failed check.
WaitAfterFailureAlwaysDelays(w) == [w EXCEPT !.pc = "delaying"]

\* `if (attempt < maxAttempts) await new Promise(... setTimeout ...)`, else
\* on to the next iteration
WaitAfterFailure(w) ==
  IF w.attempt < w.maxAttempts THEN [w EXCEPT !.pc = "delaying"]
  ELSE WaitLoop([w EXCEPT !.attempt = @ + 1])

\* isHealthy() has settled
WaitChecked(w, reply) ==
  LET counted == [w EXCEPT !.checks = @ + 1,
                           !.healthy = IF isHealthy(reply) THEN @ + 1 ELSE @]
  IN IF isHealthy(reply) THEN WaitReturns(counted, "true")
     ELSE WaitAfterFailure(counted)

\* The timer has fired: `attempt++` and the loop condition
WaitDelayed(w) == WaitLoop([w EXCEPT !.delays = @ + 1, !.attempt = @ + 1])

(***************************************************************************)
(* State.                                                                  *)
(***************************************************************************)
VARIABLES
  tableName,    \* whether process.env.SAMPLE_TABLE was set at start
  environment,  \* process.env.ENVIRONMENT ("unset" when absent)
  clock,        \* the wall clock read by new Date()
  store,        \* the table: id -> record or NoItem
  pc,           \* per caller: "ready", or "awaiting" the store call
  req,          \* per caller: the request being (or last) handled
  cmd,          \* per caller: the store command in flight
  result,       \* per caller: the adapter's outcome for the request
  resp,         \* per caller: the HTTP response written for the request
  calls,        \* per caller: store commands sent for the request
  upstream,     \* per caller: the error the store call raised, if any
  written,      \* per id: input and returned record of the last successful
                \* upsert and the createdAt returned by the first one, or
                \* NoItem
  previous,     \* per caller: what `written` held for the id before the
                \* request's upsert succeeded, or NoItem
  page,         \* the frontend TestPage: its state and its pending fetches
  wait          \* the e2e ApiClient: the call of waitForApi in progress

vars == <<tableName, environment, clock, store, pc, req, cmd, result, resp,
          calls, upstream, written, previous, page, wait>>

Environments == {"prod", "dev", "unset"}
NoError == [name |-> "none"]
NoRequest == [via |-> "none"]

\* `json` tells what express.json() made of the request body: a parsed
\* "object", "malformed" text, or "none" for a request without a body.
HttpRequest(method, path, json, body) ==
  [via |-> "http", method |-> method, path |-> path, json |-> json, body |-> body]
AdapterCall(op, arg) ==
  [via |-> "adapter", method |-> op, path |-> <<>>, json |-> "none", body |-> arg]
NoBody == [id |-> Undef, name |-> Undef]

Init ==
  /\ tableName \in BOOLEAN
  /\ environment \in Environments
  /\ clock = 0
  /\ store = [i \in Ids |-> NoItem]
  /\ pc = [c \in Clients |-> "ready"]
  /\ req = [c \in Clients |-> NoRequest]
  /\ cmd = [c \in Clients |-> NoCmd]
  /\ result = [c \in Clients |-> NoResult]
  /\ resp = [c \in Clients |-> NoResponse]
  /\ calls = [c \in Clients |-> 0]
  /\ upstream = [c \in Clients |-> NoError]
  /\ written = [i \in Ids |-> NoItem]
  /\ previous = [c \in Clients |-> NoItem]
  /\ page = PageStart
  /\ wait = WaitStart

\* Time passes.
Tick ==
  /\ clock < MaxClock
  /\ clock' = clock + 1
  /\ UNCHANGED <<page, wait, tableName, environment, store, pc, req, cmd, result, resp,
                 calls, upstream, written, previous>>

\* How the handler of a request answers the adapter's outcome.
Respond(request, outcome, env, now) ==
  IF request.via = "adapter" THEN NoResponse
  ELSE IF request.method = "POST" THEN PostRespond(outcome, request.path, env, now)
  ELSE IF request.path = ItemsMount THEN ListRespond(outcome, request.path, env, now)
  ELSE GetRespond(outcome, request.path[Len(request.path)], request.path, env, now)

\* A request is taken up and its handler runs up to the store call: `step`
\* is the adapter's Throw or Send.
Begin(c, request, step) ==
  /\ pc[c] = "ready"
  /\ req' = [req EXCEPT ![c] = request]
  /\ upstream' = [upstream EXCEPT ![c] = NoError]
  /\ previous' = [previous EXCEPT ![c] = NoItem]
  /\ IF step.kind = "send"
       THEN /\ pc' = [pc EXCEPT ![c] = "awaiting"]
            /\ cmd' = [cmd EXCEPT ![c] = step.cmd]
            /\ calls' = [calls EXCEPT ![c] = 1]
            /\ result' = [result EXCEPT ![c] = NoResult]
            /\ resp' = [resp EXCEPT ![c] = NoResponse]
       ELSE /\ pc' = pc
            /\ cmd' = [cmd EXCEPT ![c] = NoCmd]
            /\ calls' = [calls EXCEPT ![c] = 0]
            /\ result' = [result EXCEPT ![c] = step]
            /\ resp' = [resp EXCEPT ![c] = Respond(request, step, environment, clock)]
  /\ UNCHANGED <<page, wait, tableName, environment, clock, store, written>>

\* A request answered without the adapter being called.
Answer(c, request, response) ==
  /\ pc[c] = "ready"
  /\ req' = [req EXCEPT ![c] = request]
  /\ resp' = [resp EXCEPT ![c] = response]
  /\ result' = [result EXCEPT ![c] = NoResult]
  /\ cmd' = [cmd EXCEPT ![c] = NoCmd]
  /\ calls' = [calls EXCEPT ![c] = 0]
  /\ upstream' = [upstream EXCEPT ![c] = NoError]
  /\ previous' = [previous EXCEPT ![c] = NoItem]
  /\ UNCHANGED <<page, wait, tableName, environment, clock, store, pc, written>>

\* GET /api/items
HttpListItems(c) ==
  Begin(c, HttpRequest("GET", ItemsMount, "none", NoBody), getAllItemsCall(tableName))

\* GET /api/items/{id}
HttpGetItem(c) ==
  \E i \in Ids \cup {"ghost"} :
    Begin(c, HttpRequest("GET", ItemsMount \o <<i>>, "none", NoBody),
          getItemByIdCall(tableName, Str(i)))

\* router.post('/') up to the adapter call, for a parsed body
PostItem(c, body) ==
  LET request == HttpRequest("POST", ItemsMount, "object", body) IN
  IF PostRejects(body)
    THEN Answer(c, request,
                RouterError(400, MsgBodyRequired, clock, RouterPath(ItemsMount)))
    ELSE Begin(c, request,
               putItemCall(tableName, PostFields(body), clock))

\* POST /api/items with a JSON object as body
HttpPostItem(c) == \E body \in Bodies : PostItem(c, body)

\* POST /api/items with a body express.json() cannot parse
HttpPostMalformed(c) ==
  Answer(c, HttpRequest("POST", ItemsMount, "malformed", NoBody),
         errorHandler(BodyParseError, ItemsMount, environment, clock))

\* A health check that asks the store before it answers.
HttpHealthPingsStore(c) ==
  Begin(c, HttpRequest("GET", HealthPath, "none", NoBody),
        getAllItemsCall(tableName))

\* GET /health
HttpHealth(c) ==
  Answer(c, HttpRequest("GET", HealthPath, "none", NoBody),
         Json("health",
              [status |-> "ok", timestamp |-> clock,
               environment |-> IF environment = "unset" THEN "dev" ELSE environment],
              "app"))

\* GET /
RootRequest == HttpRequest("GET", RootPath, "none", NoBody)
RootInfo ==
  Json("info",
       [message |-> "LearnerMax API", version |-> "1.0.0",
        documentation |-> "/openapi.yaml"],
       "app")

HttpRoot(c) == Answer(c, RootRequest, RootInfo)

\* A request no route matches: another path, or a method the router has no
\* handler for.
UnmatchedExchanges ==
  { <<HttpRequest(r[1], r[2], "none", NoBody), FinalHandler(r[1], r[2])>> :
      r \in { <<"GET", InvalidPath>>, <<"POST", ItemsMount \o <<"a">> >>,
              <<"DELETE", ItemsMount \o <<"a">> >>, <<"PUT", ItemsMount>> } }

HttpUnmatched(c) == \E x \in UnmatchedExchanges : Answer(c, x[1], x[2])

\* The adapter called directly, as its unit tests do.
CallGetAllItems(c) ==
  Begin(c, AdapterCall("getAllItems", NoBody), getAllItemsCall(tableName))

CallGetItemById(c) ==
  \E v \in {Str("")} \cup {Str(i) : i \in Ids \cup {"ghost"}} :
    Begin(c, AdapterCall("getItemById", [id |-> v, name |-> Undef]),
          getItemByIdCall(tableName, v))

CallPutItem(c) ==
  \E item \in Bodies :
    Begin(c, AdapterCall("putItem", item), putItemCall(tableName, item, clock))

\* The store executes the command and the handler continues with its reply.
StoreReplies(c) ==
  /\ pc[c] = "awaiting"
  /\ cmd[c].op = "Put" => PutAccepted(cmd[c].item)
  /\ \E outcome \in
        CASE cmd[c].op = "Scan" ->
               { getAllItemsReturn(data) : data \in ScanReplies(store) }
          [] cmd[c].op = "Get" -> { getItemByIdReturn(GetItem(store, cmd[c].key)) }
          [] cmd[c].op = "Put" -> { putItemReturn(cmd[c]) } :
       /\ result' = [result EXCEPT ![c] = outcome]
       /\ resp' = [resp EXCEPT ![c] = Respond(req[c], outcome, environment, clock)]
  /\ IF cmd[c].op = "Put"
       THEN /\ store' = PutApply(store, cmd[c].item)
            /\ written' = [written EXCEPT ![cmd[c].item.id.s] =
                             [input |-> req[c].body,
                              output |-> result'[c].value,
                              first |-> IF @ = NoItem
                                          THEN result'[c].value.createdAt
                                          ELSE @.first]]
            /\ previous' = [previous EXCEPT ![c] = written[cmd[c].item.id.s]]
       ELSE UNCHANGED <<store, written, previous>>
  /\ pc' = [pc EXCEPT ![c] = "ready"]
  /\ cmd' = [cmd EXCEPT ![c] = NoCmd]
  /\ UNCHANGED <<page, wait, tableName, environment, clock, req, calls, upstream>>

\* The store call is rejected: the adapter's catch block runs, then the
\* handler's.  A catch block that called the store again would leave the
\* request waiting for the next reply.
StoreFails(c) ==
  /\ pc[c] = "awaiting"
  /\ \E e \in IF cmd[c].op = "Put" /\ ~PutAccepted(cmd[c].item)
                THEN {KeyTypeMismatch} ELSE UpstreamErrors :
       LET outcome == CatchStoreError(cmd[c], e) IN
       /\ upstream' = [upstream EXCEPT ![c] = e]
       /\ IF outcome.kind = "send"
            THEN /\ cmd' = [cmd EXCEPT ![c] = outcome.cmd]
                 /\ calls' = [calls EXCEPT ![c] = @ + 1]
                 /\ UNCHANGED <<pc, result, resp>>
            ELSE /\ result' = [result EXCEPT ![c] = outcome]
                 /\ resp' = [resp EXCEPT ![c] =
                               Respond(req[c], outcome, environment, clock)]
                 /\ pc' = [pc EXCEPT ![c] = "ready"]
                 /\ cmd' = [cmd EXCEPT ![c] = NoCmd]
                 /\ calls' = calls
  /\ UNCHANGED <<page, wait, tableName, environment, clock, store, req, written, previous>>

Next ==
  \/ Tick
  \/ \E c \in Clients :
       \/ HttpListItems(c)
       \/ HttpGetItem(c)
       \/ HttpPostItem(c)
       \/ HttpPostMalformed(c)
       \/ HttpHealth(c)
       \/ HttpRoot(c)
       \/ HttpUnmatched(c)
       \/ CallGetAllItems(c)
       \/ CallGetItemById(c)
       \/ CallPutItem(c)
       \/ StoreReplies(c)
       \/ StoreFails(c)

Spec == Init /\ [][Next]_vars

(***************************************************************************)
(* Two callers whose POST requests overlap: each request is stamped when   *)
(* its handler runs and written when the store executes its PutCommand,    *)
(* and nothing orders the two.                                             *)
(***************************************************************************)
Callers == {"c1", "c2"}

InitConc ==
  /\ tableName \in BOOLEAN
  /\ environment \in Environments
  /\ clock = 0
  /\ store = [i \in Ids |-> NoItem]
  /\ pc = [c \in Callers |-> "ready"]
  /\ req = [c \in Callers |-> NoRequest]
  /\ cmd = [c \in Callers |-> NoCmd]
  /\ result = [c \in Callers |-> NoResult]
  /\ resp = [c \in Callers |-> NoResponse]
  /\ calls = [c \in Callers |-> 0]
  /\ upstream = [c \in Callers |-> NoError]
  /\ written = [i \in Ids |-> NoItem]
  /\ previous = [c \in Callers |-> NoItem]
  /\ page = PageStart
  /\ wait = WaitStart

\* The bodies the callers post: the same id with one name or another.
SameIdBodies == [id : {Str("a")}, name : {Str(n) : n \in Names}]

HttpPostSameId(c) == \E body \in SameIdBodies : PostItem(c, body)

NextConc ==
  \/ Tick
  \/ \E c \in Callers :
       \/ HttpPostSameId(c)
       \/ HttpHealth(c)
       \/ StoreReplies(c)
       \/ StoreFails(c)

SpecConc == InitConc /\ [][NextConc]_vars

(***************************************************************************)
(* The two middlewares on their own: errorHandler applied to any error a   *)
(* handler or another middleware may pass to next(error), corsMiddleware   *)
(* applied to any method and Origin header, in any mode.                   *)
(***************************************************************************)
UnitEnvironments == Environments \cup {"", "staging"}

ErrorNames == {"Error", "ValidationError", "CastError", "JsonWebTokenError"}
ErrorValues ==
  [name : ErrorNames, message : {<<>>, <<"boom">>}, statusCode : {0, 404, 503},
   stack : {<<"Error", "boom", "at", "handler">>}]

Origins ==
  { OriginLearnerMax, OriginLocalhost,
    <<"http://", "www", ".", "learnermax", ".", "com">>,
    <<"https://", "preview", ".", "vercel", ".", "app">>,
    <<"https://", "vercel", ".", "app">>,
    <<"https://", "preview", ".", "vercel", ".", "app", ".", "evil", ".", "example">>,
    <<"https://", "evil", ".", "example">> }
OriginHeaders == {NoOrigin, Origin(<<>>)} \cup {Origin(o) : o \in Origins}

InitUnit ==
  /\ tableName \in BOOLEAN
  /\ environment \in UnitEnvironments
  /\ clock = 0
  /\ store = [i \in Ids |-> NoItem]
  /\ pc = [c \in Clients |-> "ready"]
  /\ req = [c \in Clients |-> NoRequest]
  /\ cmd = [c \in Clients |-> NoCmd]
  /\ result = [c \in Clients |-> NoResult]
  /\ resp = [c \in Clients |-> NoResponse]
  /\ calls = [c \in Clients |-> 0]
  /\ upstream = [c \in Clients |-> NoError]
  /\ written = [i \in Ids |-> NoItem]
  /\ previous = [c \in Clients |-> NoItem]
  /\ page = PageStart
  /\ wait = WaitStart

\* errorHandler(err, req, res, next) for an error and a request path
ApplyErrorHandler(c) ==
  \E err \in ErrorValues : \E path \in {ItemsMount, InvalidPath} :
    /\ pc[c] = "ready"
    /\ req' = [req EXCEPT ![c] = [via |-> "errorHandler", method |-> "GET",
                                  path |-> path]]
    /\ result' = [result EXCEPT ![c] = Throw(err)]
    /\ resp' = [resp EXCEPT ![c] = errorHandler(err, path, environment, clock)]
    /\ UNCHANGED <<page, wait, tableName, environment, clock, store, pc, cmd, calls,
                   upstream, written, previous>>

\* corsMiddleware(req, res, next) for a method and an Origin header
ApplyCors(c) ==
  \E method \in {"GET", "POST", "OPTIONS"} : \E origin \in OriginHeaders :
    /\ pc[c] = "ready"
    /\ req' = [req EXCEPT ![c] = [via |-> "corsMiddleware", method |-> method,
                                  origin |-> origin]]
    /\ result' = [result EXCEPT ![c] = NoResult]
    /\ resp' = [resp EXCEPT ![c] = corsMiddleware(method, origin, environment)]
    /\ UNCHANGED <<page, wait, tableName, environment, clock, store, pc, cmd, calls,
                   upstream, written, previous>>

\* What Express does with an OPTIONS request that reaches routing: it
\* answers 200 with an Allow header for a path that has routes, and 404
\* otherwise.
ExpressOptions(path) ==
  IF \/ path = HealthPath \/ path = RootPath
     \/ /\ Len(path) >= Len(ItemsMount)
        /\ SubSeq(path, 1, Len(ItemsMount)) = ItemsMount
    THEN [status |-> 200, kind |-> "allow", by |-> "express",
          body |-> <<"GET", "HEAD">>]
    ELSE FinalHandler("OPTIONS", path)

OptionsPaths == {ItemsMount, ItemsMount \o <<"a">>, HealthPath, InvalidPath}

\* An OPTIONS request through app: corsMiddleware runs before the body
\* parsers and the routes.
HttpOptions(c) ==
  \E path \in OptionsPaths : \E origin \in OriginHeaders :
    LET request == [via |-> "http", method |-> "OPTIONS", path |-> path,
                    json |-> "none", body |-> NoBody, origin |-> origin]
        cors == corsMiddleware("OPTIONS", origin, environment)
    IN Answer(c, request, IF cors.next THEN ExpressOptions(path) ELSE cors)

NextUnit ==
  \/ Tick
  \/ \E c \in Clients :
       \/ ApplyErrorHandler(c)
       \/ ApplyCors(c)
       \/ HttpOptions(c)

SpecUnit == InitUnit /\ [][NextUnit]_vars

(***************************************************************************)
(* POST bodies that carry more than id and name.                           *)
(***************************************************************************)
\* What a client may add to a body: timestamps of its own, another field.
ExtraFields ==
  { [createdAt |-> Str("1999")],
    [createdAt |-> Str("1999"), updatedAt |-> Str("2000")],
    [role |-> Str("admin")] }

PlainBody == [id |-> Str("a"), name |-> Str("x")]

WideBodies == {PlainBody} \cup {PlainBody @@ extra : extra \in ExtraFields}

InitFields ==
  /\ tableName = TRUE
  /\ environment = "dev"
  /\ clock = 0
  /\ store = [i \in Ids |-> NoItem]
  /\ pc = [c \in Callers |-> "ready"]
  /\ req = [c \in Callers |-> NoRequest]
  /\ cmd = [c \in Callers |-> NoCmd]
  /\ result = [c \in Callers |-> NoResult]
  /\ resp = [c \in Callers |-> NoResponse]
  /\ calls = [c \in Callers |-> 0]
  /\ upstream = [c \in Callers |-> NoError]
  /\ written = [i \in Ids |-> NoItem]
  /\ previous = [c \in Callers |-> NoItem]
  /\ page = PageStart
  /\ wait = WaitStart

HttpPostWide(c) == \E body \in WideBodies : PostItem(c, body)

NextFields ==
  \/ Tick
  \/ \E c \in Callers :
       \/ HttpPostWide(c)
       \/ StoreReplies(c)
       \/ StoreFails(c)

SpecFields == InitFields /\ [][NextFields]_vars

(***************************************************************************)
(* The two clients of the API: the TestPage in a browser and the e2e       *)
(* ApiClient.  The server is whatever answers them.                        *)
(***************************************************************************)
InitClients ==
  /\ tableName = TRUE
  /\ environment = "dev"
  /\ clock = 0
  /\ store = [i \in Ids |-> NoItem]
  /\ pc = [c \in Clients |-> "ready"]
  /\ req = [c \in Clients |-> NoRequest]
  /\ cmd = [c \in Clients |-> NoCmd]
  /\ result = [c \in Clients |-> NoResult]
  /\ resp = [c \in Clients |-> NoResponse]
  /\ calls = [c \in Clients |-> 0]
  /\ upstream = [c \in Clients |-> NoError]
  /\ written = [i \in Ids |-> NoItem]
  /\ previous = [c \in Clients |-> NoItem]
  /\ page = PageStart
  /\ wait = WaitStart

server == <<tableName, environment, clock, store, pc, req, cmd, result, resp,
            calls, upstream, written, previous>>

\* A click on the button; a disabled button does not call onClick.
ClickTestButton ==
  /\ ~Disabled(page)
  /\ page' = FetchStarted(page)
  /\ UNCHANGED <<server, wait>>

\* A pending fetch settles and fetchData runs to its end.
FetchSettles ==
  /\ page.fetches > 0
  /\ \E outcome \in FetchOutcomes : page' = FetchSettled(page, outcome)
  /\ UNCHANGED <<server, wait>>

\* waitForApi is called (again, once an earlier call has returned).
CallWaitForApi ==
  /\ wait.pc \in {"idle", "returned"}
  /\ \E maxAttempts \in 0..MaxAttempts : wait' = WaitCalled(maxAttempts)
  /\ UNCHANGED <<server, page>>

\* The health check of the current attempt settles.
HealthCheckSettles ==
  /\ wait.pc = "checking"
  /\ \E reply \in HealthReplies : wait' = WaitChecked(wait, reply)
  /\ UNCHANGED <<server, page>>

\* The delay between two attempts is over.
DelayEnds ==
  /\ wait.pc = "delaying"
  /\ wait' = WaitDelayed(wait)
  /\ UNCHANGED <<server, page>>

NextClients ==
  \/ ClickTestButton
  \/ FetchSettles
  \/ CallWaitForApi
  \/ HealthCheckSettles
  \/ DelayEnds

SpecClients == InitClients /\ [][NextClients]_vars

\* The event loop runs every settled promise and every timer that is due,
\* and each health check settles, by its answer or by the axios timeout.
SpecClientsFair ==
  SpecClients /\ WF_vars(HealthCheckSettles) /\ WF_vars(DelayEnds)

(***************************************************************************)
(* Properties.                                                             *)
(***************************************************************************)
\* The caller's request has been handled to its end.
Done(c) == pc[c] = "ready" /\ req[c].via # "none"

\* The request reached the store and the store executed its command.
StoreOk(c) == calls[c] = 1 /\ upstream[c] = NoError

IsHttpGetById(r, i) ==
  r.via = "http" /\ r.method = "GET" /\ r.path = ItemsMount \o <<i>>
IsCallGetById(r, i) ==
  r.via = "adapter" /\ r.method = "getItemById" /\ r.body.id = Str(i)
IsGetById(r, i) == IsHttpGetById(r, i) \/ IsCallGetById(r, i)

IsHttpPost(r) ==
  r.via = "http" /\ r.method = "POST" /\ r.path = ItemsMount /\ r.json = "object"
IsCallPut(r) == r.via = "adapter" /\ r.method = "putItem"
IsUpsert(r) == IsHttpPost(r) \/ IsCallPut(r)

\* C1: a getById(id) that follows a successful upsert({id, name}), with no
\* other write to the id in between, returns an item (not the absence
\* sentinel, not another record) whose id and name are those of the upsert
\* input; the router answers it 200 with that item.  (A getById whose store
\* call fails returns nothing: it throws, see C10.)
UpsertThenGetReturnsInput ==
  \A c \in Clients : \A i \in Ids :
    (Done(c) /\ IsGetById(req[c], i) /\ written[i] # NoItem /\ StoreOk(c))
      => /\ result[c].kind = "return"
         /\ result[c].value # Null
         /\ result[c].value.id = written[i].input.id
         /\ result[c].value.name = written[i].input.name
         /\ result[c].value.id = Str(i)
         /\ req[c].via = "http" =>
              /\ resp[c].status = 200
              /\ resp[c].body.id = written[i].input.id
              /\ resp[c].body.name = written[i].input.name

\* Witness of C1: a GET of an id answered 200 after an upsert of that id.
UpsertThenGetWitness ==
  \E c \in Clients : \E i \in Ids :
    /\ Done(c) /\ IsHttpGetById(req[c], i) /\ written[i] # NoItem
    /\ resp[c].status = 200 /\ resp[c].body.name = written[i].input.name

\* C2 as stated: every upsert whose id or name is empty or absent fails with
\* InvalidArgument ('Both id and name are required').
InvalidUpsertFailsInvalidArgument ==
  \A c \in Clients :
    (Done(c) /\ IsCallPut(req[c]) /\ PostRejects(req[c].body))
      => /\ result[c].kind = "throw"
         /\ result[c].error.message = MsgBothRequired

\* C2, amended: an upsert whose id or name is empty or absent always fails
\* without a store call, so no record is written and an id that was absent
\* stays absent; the failure is InvalidArgument whenever SAMPLE_TABLE is set
\* (with SAMPLE_TABLE unset the missing-table error comes first).
InvalidUpsertWritesNothing ==
  [][\A c \in Clients :
       (pc[c] = "ready" /\ IsCallPut(req'[c]) /\ PostRejects(req'[c].body))
         => /\ pc'[c] = "ready"
            /\ result'[c].kind = "throw"
            /\ tableName => result'[c].error.message = MsgBothRequired
            /\ ~tableName => result'[c].error.message = MsgTableNotSet
            /\ calls'[c] = 0
            /\ store' = store
            /\ \A i \in Ids : GetItem(store, Str(i)) = Null
                              => GetItem(store', Str(i)) = Null]_vars

\* Witness of C2: putItem called without an id has thrown InvalidArgument
\* while the table holds a record.
InvalidUpsertWitness ==
  \E c \in Clients :
    /\ Done(c) /\ IsCallPut(req[c]) /\ ~Truthy(req[c].body.id)
    /\ result[c].kind = "throw" /\ result[c].error.message = MsgBothRequired
    /\ \E i \in Ids : store[i] # NoItem

\* C3 as stated: createdAt is set once; a later upsert of the id leaves the
\* stored createdAt as the first upsert set it.
CreatedAtSetOnce ==
  [][\A i \in Ids :
       (store[i] # NoItem /\ store'[i] # NoItem)
         => store'[i].createdAt = store[i].createdAt]_vars

\* C4: when a successful upsert of an id follows an earlier successful
\* upsert of the same id with a different name, getById(id) returns the
\* second name (last write wins), and the updatedAt of the second write is
\* greater than or equal to the updatedAt of the first.
SecondUpsertWins ==
  \A c \in Clients : \A i \in Ids :
    (/\ Done(c) /\ IsUpsert(req[c]) /\ StoreOk(c) /\ req[c].body.id = Str(i)
     /\ previous[c] # NoItem /\ previous[c].input.name # req[c].body.name)
      => /\ getItemByIdReturn(GetItem(store, Str(i))).value # Null
         /\ getItemByIdReturn(GetItem(store, Str(i))).value.name = req[c].body.name
         /\ result[c].value.updatedAt >= previous[c].output.updatedAt
         /\ store[i].updatedAt >= previous[c].output.updatedAt

\* Witness of C4: an upsert has replaced the record an earlier upsert wrote
\* under another name, at a later reading of the clock.
SecondUpsertWitness ==
  \E c \in Clients : \E i \in Ids :
    /\ Done(c) /\ IsHttpPost(req[c]) /\ StoreOk(c) /\ req[c].body.id = Str(i)
    /\ previous[c] # NoItem /\ previous[c].input.name # req[c].body.name
    /\ store[i].name = req[c].body.name
    /\ store[i].updatedAt > previous[c].output.updatedAt

\* C5 as stated: getById on an id that was never written returns NotFound
\* (null from the adapter, 404 from the router) and never throws.
GetUnwrittenIsNotFound ==
  \A c \in Clients : \A i \in Ids \cup {"ghost"} :
    (Done(c) /\ IsGetById(req[c], i) /\ (i \in Ids => written[i] = NoItem))
      => /\ result[c] = Return(Null)
         /\ req[c].via = "http" => resp[c].status = 404

\* C5, amended: getById on an id that was never written returns NotFound
\* (null from the adapter, 404 from the router) whenever SAMPLE_TABLE is set
\* and the store call succeeds; when it throws, the cause is the missing
\* table name or the failed store call, never the absence of the record.
GetUnwrittenNotFoundUnlessStoreFails ==
  \A c \in Clients : \A i \in Ids \cup {"ghost"} :
    (Done(c) /\ IsGetById(req[c], i) /\ (i \in Ids => written[i] = NoItem))
      => /\ (tableName /\ upstream[c] = NoError)
              => /\ result[c] = Return(Null)
                 /\ req[c].via = "http" => resp[c].status = 404
         /\ result[c].kind = "throw"
              => /\ ~tableName \/ upstream[c] # NoError
                 /\ req[c].via = "http" => resp[c].status = 500

\* Witness of C5: GET /api/items/ghost answered 404 while the table holds
\* other records.
GetUnwrittenWitness ==
  \E c \in Clients :
    /\ Done(c) /\ IsHttpGetById(req[c], "ghost") /\ resp[c].status = 404
    /\ result[c] = Return(Null)
    /\ \E i \in Ids : store[i] # NoItem

\* C6: reads never change the store: a step that completes or answers a
\* list or a get leaves every record as it was, and the store changes only
\* in a step that completes an upsert.
ReadsNeverWrite ==
  [][/\ \A c \in Clients :
          (/\ req'[c].via # "none" /\ ~IsUpsert(req'[c])
           /\ (pc[c] = "awaiting" \/ pc'[c] = "awaiting" \/ req'[c] # req[c]))
            => store' = store
     /\ store' # store
          => \E c \in Clients :
               pc[c] = "awaiting" /\ pc'[c] = "ready" /\ IsUpsert(req[c])]_vars

\* Witness of C6: a list and then a get by id were answered from a table
\* that holds a record.
ReadsWitness ==
  \E c \in Clients : \E i \in Ids :
    /\ Done(c) /\ IsHttpGetById(req[c], i) /\ resp[c].status = 200
    /\ store[i] # NoItem /\ resp[c].body = store[i]

\* C7: POST /api/items whose body has id or name missing or empty is
\* answered 400 by the router, with error.statusCode 400 and a message
\* containing 'required', and the adapter is not called: no store call is
\* issued for the request.
InvalidPostRejectedAtBoundary ==
  \A c \in Clients :
    (Done(c) /\ IsHttpPost(req[c])
     /\ (~Truthy(req[c].body.id) \/ ~Truthy(req[c].body.name)))
      => /\ resp[c].status = 400
         /\ resp[c].kind = "envelope"
         /\ resp[c].body.error.statusCode = 400
         /\ Contains(resp[c].body.error.message, "required")
         /\ result[c] = NoResult
         /\ calls[c] = 0
         /\ cmd[c] = NoCmd

\* Witness of C7: a POST with a name and no id answered 400 while the table
\* is configured.
InvalidPostWitness ==
  \E c \in Clients :
    /\ Done(c) /\ IsHttpPost(req[c]) /\ tableName
    /\ req[c].body.id = Undef /\ Truthy(req[c].body.name)
    /\ resp[c].status = 400 /\ calls[c] = 0

\* The envelope of C9: {error: {message, statusCode, timestamp, path}}.
IsEnvelope(r) ==
  /\ r.kind = "envelope"
  /\ DOMAIN r.body = {"error"}
  /\ {"message", "statusCode", "timestamp", "path"} \subseteq DOMAIN r.body.error

\* C8: GET /api/items/{id} responds 200 with the item exactly when the
\* adapter returns a record, 404 (error.statusCode 404, message containing
\* the requested id) exactly when the adapter returns the absence sentinel,
\* and 500 exactly when the adapter throws.
GetByIdStatusMapping ==
  \A c \in Clients : \A i \in Ids \cup {"ghost"} :
    (Done(c) /\ IsHttpGetById(req[c], i))
      => /\ resp[c].status \in {200, 404, 500}
         /\ resp[c].status = 200
              <=> (result[c].kind = "return" /\ result[c].value # Null)
         /\ resp[c].status = 200 => resp[c].body = result[c].value
         /\ resp[c].status = 404 <=> result[c] = Return(Null)
         /\ resp[c].status = 404
              => /\ IsEnvelope(resp[c])
                 /\ resp[c].body.error.statusCode = 404
                 /\ Contains(resp[c].body.error.message, i)
         /\ resp[c].status = 500 <=> result[c].kind = "throw"

\* Witness of C8: GET /api/items/ghost answered 404 with the id in the
\* message.
GetByIdAbsentWitness ==
  \E c \in Clients :
    /\ Done(c) /\ IsHttpGetById(req[c], "ghost") /\ resp[c].status = 404
    /\ Contains(resp[c].body.error.message, "ghost")

\* C9 as stated: every response with a non-2xx status, on any path and
\* method, has the envelope body and its error.statusCode is the HTTP status.
EveryErrorIsEnvelope ==
  \A c \in Clients :
    (resp[c].kind # "none" /\ ~(resp[c].status \in 200..299))
      => /\ IsEnvelope(resp[c])
         /\ resp[c].body.error.statusCode = resp[c].status

\* The generic message of a failed store call, by adapter method.
GenericFailure(r) ==
  IF r.method \in {"POST", "putItem"} THEN NewError(MsgPutFailed, "putItem")
  ELSE IF r.method = "getAllItems" \/ (r.via = "http" /\ r.path = ItemsMount)
    THEN NewError(MsgScanFailed, "getAllItems")
  ELSE NewError(MsgGetFailed, "getItemById")

\* C10: when the store call of listAll, getById or upsert raises an error,
\* the operation fails with one generic error per operation and the HTTP
\* response is 500 with that generic message: nothing in the adapter's
\* error or in the response depends on which error the store raised.
StoreErrorsAreFlattened ==
  \A c \in Clients :
    (Done(c) /\ upstream[c] # NoError)
      => /\ result[c] = Throw(GenericFailure(req[c]))
         /\ req[c].via = "http"
              => /\ resp[c].status = 500
                 /\ IsEnvelope(resp[c])
                 /\ resp[c].body.error.statusCode = 500
                 /\ resp[c].body.error.message = GenericFailure(req[c]).message
                 /\ resp[c].body.error.path = req[c].path
                 /\ "stack" \in DOMAIN resp[c].body.error
                      => resp[c].body.error.stack = GenericFailure(req[c]).stack

\* Witness of C10: a POST whose store call was throttled, answered 500.
StoreErrorWitness ==
  \E c \in Clients :
    /\ Done(c) /\ IsHttpPost(req[c]) /\ resp[c].status = 500
    /\ upstream[c].name = "ProvisionedThroughputExceededException"

\* C11 as stated: on the item routes every response with a status other
\* than 2xx is written by errorHandler; no route handler writes one itself.
OnlyErrorHandlerWritesNon2xx ==
  \A c \in Clients :
    (Done(c) /\ req[c].via = "http" /\ resp[c].by \in {"router", "errorHandler"}
       /\ resp[c].status # 200)
      => resp[c].by = "errorHandler"

\* C11, amended: errorHandler is the only writer of the response for a
\* thrown error (an adapter failure passed to next(error), or a body that
\* express.json() cannot parse); the only non-2xx responses a route handler
\* writes itself are the 400 of the POST presence check and the 404 of a
\* GET by id that found nothing, and neither follows a throw.
ThrownErrorsAnsweredByErrorHandler ==
  \A c \in Clients :
    (Done(c) /\ req[c].via = "http")
      => /\ (result[c].kind = "throw" \/ req[c].json = "malformed")
              => resp[c].by = "errorHandler"
         /\ (resp[c].by = "router" /\ resp[c].status # 200)
              => /\ result[c].kind # "throw"
                 /\ \/ resp[c].status = 400 /\ IsHttpPost(req[c]) /\ calls[c] = 0
                    \/ /\ resp[c].status = 404 /\ req[c].method = "GET"
                       /\ result[c] = Return(Null)

\* Witness of C11: a POST whose store call failed, answered by errorHandler.
ThrownErrorWitness ==
  \E c \in Clients :
    /\ Done(c) /\ IsHttpPost(req[c]) /\ result[c].kind = "throw"
    /\ upstream[c] # NoError /\ resp[c].by = "errorHandler" /\ resp[c].status = 500

\* The caller's current request is an upsert of id i that the store executed.
UpsertedBy(c, i) ==
  /\ Done(c) /\ IsUpsert(req[c]) /\ StoreOk(c) /\ req[c].body.id = Str(i)

\* C12: concurrent upserts to the same id are not coordinated and all
\* succeed.  The stored record of an id is always exactly the full record of
\* the last PutCommand the store executed for it, whose id and name are those
\* of one upsert input and whose two timestamps are those of that upsert,
\* never a mixture of two writes; every upsert the store executed returns its
\* own record with status 200; a pending PutCommand can always be executed,
\* whatever the other caller has done; and once every caller's upsert of the
\* id has completed, the stored record is the record returned to one of them.
ConcurrentUpsertsLastWriteWins ==
  /\ \A i \in Ids :
       /\ written[i] = NoItem => store[i] = NoItem
       /\ written[i] # NoItem =>
            /\ store[i] = written[i].output
            /\ store[i].id = written[i].input.id
            /\ store[i].name = written[i].input.name
            /\ store[i].createdAt = store[i].updatedAt
       /\ (\A c \in Callers : UpsertedBy(c, i))
            => \E c \in Callers : store[i] = result[c].value
  /\ \A c \in Callers :
       /\ (Done(c) /\ IsHttpPost(req[c]) /\ StoreOk(c))
            => /\ result[c].kind = "return"
               /\ resp[c].status = 200
               /\ resp[c].body = result[c].value
               /\ resp[c].body.name = req[c].body.name
       /\ (Done(c) /\ IsHttpPost(req[c]) /\ upstream[c] # NoError)
            => upstream[c] \in UpstreamErrors
       /\ (pc[c] = "awaiting" /\ tableName) => ENABLED StoreReplies(c)

\* Witness of C12: two POSTs of the same id overlapped.  The request of c1
\* was stamped first and written last: the stored record is the one returned
\* to c1, it replaced the record returned to c2, and it carries the older
\* timestamp and the other name.
ConcurrentUpsertsWitness ==
  /\ UpsertedBy("c1", "a") /\ UpsertedBy("c2", "a")
  /\ store["a"] = result["c1"].value
  /\ previous["c1"] # NoItem
  /\ previous["c1"].output = result["c2"].value
  /\ result["c1"].value.updatedAt < result["c2"].value.updatedAt
  /\ result["c1"].value.name # result["c2"].value.name

\* C13: an upsert that the store executed returns the record it wrote: the
\* id and name of the input plus createdAt and updatedAt, both holding the
\* one clock reading taken when the handler ran, so createdAt = updatedAt;
\* the router answers 200 with that record.
UpsertReturnsWrittenRecord ==
  \A c \in Clients :
    (Done(c) /\ IsUpsert(req[c]) /\ StoreOk(c))
      => /\ result[c].kind = "return"
         /\ DOMAIN result[c].value = {"id", "name", "createdAt", "updatedAt"}
         /\ result[c].value.id = req[c].body.id
         /\ result[c].value.name = req[c].body.name
         /\ result[c].value.createdAt = result[c].value.updatedAt
         /\ result[c].value.createdAt \in 0..clock
         /\ result[c].value = store[req[c].body.id.s]
         /\ req[c].via = "http" =>
              /\ resp[c].status = 200
              /\ resp[c].body = result[c].value

\* Witness of C13: a POST answered 200 with a record stamped after the clock
\* had advanced.
UpsertReturnsWitness ==
  \E c \in Clients :
    /\ Done(c) /\ IsHttpPost(req[c]) /\ StoreOk(c)
    /\ resp[c].status = 200
    /\ resp[c].body.createdAt > 0
    /\ resp[c].body.createdAt = resp[c].body.updatedAt

\* C14: nothing is retried.  Every HTTP request to the item routes sends at
\* most one command to the store: none when it is rejected before the store
\* call, and exactly one when the call is made, whether the call succeeds or
\* fails; a failed call is answered at once with the 500 envelope.
AtMostOneStoreCall ==
  \A c \in Clients :
    /\ calls[c] <= 1
    /\ (Done(c) /\ req[c].via = "http" /\ upstream[c] # NoError)
         => /\ calls[c] = 1
            /\ resp[c].status = 500
    /\ (pc[c] = "awaiting") => (calls[c] = 1 /\ upstream[c] = NoError)

\* Witness of C14: an HTTP request whose single store call failed and was
\* answered.
FailedCallNotRetriedWitness ==
  \E c \in Clients :
    /\ Done(c) /\ req[c].via = "http" /\ upstream[c] # NoError
    /\ calls[c] = 1 /\ resp[c].status = 500

\* C15: the core never deletes.  No step of any operation (list, get,
\* upsert, succeeding or failing) removes a stored record, and a getById(id)
\* that the store executes after an upsert of the id succeeded returns an
\* item with that id, never the absence sentinel; the router answers it 200,
\* never 404.
NeverDeletes ==
  [][\A i \in Ids :
       /\ store[i] # NoItem => store'[i] # NoItem
       /\ written[i] # NoItem => (written'[i] # NoItem /\ store[i] # NoItem)
       /\ \A c \in Clients :
            (/\ written[i] # NoItem
             /\ pc[c] = "awaiting" /\ pc'[c] = "ready"
             /\ IsGetById(req[c], i) /\ upstream'[c] = NoError)
              => /\ result'[c].kind = "return"
                 /\ result'[c].value # Null
                 /\ result'[c].value.id = Str(i)
                 /\ req[c].via = "http" => resp'[c].status = 200]_vars

\* Witness of C15: a GET of id a answered 200 after a was upserted and then
\* b was upserted later.
NeverDeletesWitness ==
  \E c \in Clients :
    /\ Done(c) /\ IsHttpGetById(req[c], "a") /\ StoreOk(c)
    /\ written["a"] # NoItem /\ written["b"] # NoItem
    /\ written["b"].output.updatedAt > written["a"].output.updatedAt
    /\ resp[c].status = 200 /\ resp[c].body.id = Str("a")

\* C16: with ENVIRONMENT = 'prod' no error response contains a stack field;
\* an error response contains one only when ENVIRONMENT is not 'prod', and
\* then only if errorHandler wrote it (the envelopes the router writes
\* itself never carry a stack).
StackOnlyOutsideProd ==
  \A c \in Clients :
    (Done(c) /\ req[c].via = "http" /\ resp[c].kind = "envelope")
      => /\ "stack" \in DOMAIN resp[c].body.error => environment # "prod"
         /\ environment = "prod" =>
              DOMAIN resp[c].body.error =
                {"message", "statusCode", "timestamp", "path"}
         /\ "stack" \in DOMAIN resp[c].body.error => resp[c].by = "errorHandler"
         /\ (resp[c].by = "errorHandler" /\ environment # "prod")
              => "stack" \in DOMAIN resp[c].body.error

\* Witness of C16: in prod, a failed store call answered by errorHandler
\* with an envelope that has no stack.
ProdErrorWitness ==
  \E c \in Clients :
    /\ Done(c) /\ req[c].via = "http" /\ environment = "prod"
    /\ resp[c].by = "errorHandler" /\ resp[c].status = 500
    /\ result[c].kind = "throw" /\ result[c].error.stack # <<>>
    /\ "stack" \notin DOMAIN resp[c].body.error

\* The request of the caller was an application of errorHandler to an error.
Normalized(c) == req[c].via = "errorHandler" /\ result[c].kind = "throw"

\* C17 as stated: errorHandler responds 500 for every error that carries no
\* status code, and with the error's own statusCode for every error that
\* carries one.
StatusIsOwnCodeOr500 ==
  \A c \in Clients :
    Normalized(c) =>
      resp[c].status = IF result[c].error.statusCode # 0
                         THEN result[c].error.statusCode ELSE 500

\* C17, amended: errorHandler responds 400 for every error named
\* ValidationError or CastError and 401 for every error named
\* JsonWebTokenError, whatever status code the error carries; for every
\* other error it responds 500 if the error carries no status code and with
\* the error's own statusCode if it carries one.  The envelope repeats the
\* status.
StatusByNameThenOwnCodeOr500 ==
  \A c \in Clients :
    Normalized(c) =>
      LET err == result[c].error IN
      /\ err.name \in {"ValidationError", "CastError"} => resp[c].status = 400
      /\ err.name = "JsonWebTokenError" => resp[c].status = 401
      /\ err.name \notin {"ValidationError", "CastError", "JsonWebTokenError"}
           => resp[c].status = IF err.statusCode # 0 THEN err.statusCode ELSE 500
      /\ resp[c].body.error.statusCode = resp[c].status

\* Witness of C17: an error named ValidationError carrying status code 503,
\* answered 400.
NamedErrorWitness ==
  \E c \in Clients :
    /\ Normalized(c)
    /\ result[c].error.name = "ValidationError"
    /\ result[c].error.statusCode = 503
    /\ resp[c].status = 400

\* The mode corsMiddleware works in: ENVIRONMENT, or 'dev' when it is unset
\* or empty.
CorsMode == IF environment \in {"unset", ""} THEN "dev" ELSE environment

\* C20: corsMiddleware sets Access-Control-Allow-Origin to the request's
\* Origin only for allowed origins and to the empty string otherwise.  With
\* ENVIRONMENT = 'prod' the only allowed origin is
\* 'https://www.learnermax.com'; otherwise 'http://localhost:3000' is allowed
\* too; an origin containing '.vercel.app' is allowed only when ENVIRONMENT
\* is 'dev' or unset.
CorsEchoesAllowedOriginsOnly ==
  \A c \in Clients :
    req[c].via = "corsMiddleware" =>
      LET origin == req[c].origin
          echoed == resp[c].headers.allowOrigin
          allowed ==
            /\ origin.present /\ origin.value # <<>>
            /\ \/ origin.value = OriginLearnerMax
               \/ CorsMode # "prod" /\ origin.value = OriginLocalhost
               \/ CorsMode = "dev" /\ Includes(origin.value, VercelApp)
      IN /\ allowed => echoed = origin.value
         /\ ~allowed => echoed = <<>>
         /\ echoed \in {<<>>, origin.value}
         /\ environment = "prod" => echoed \in {<<>>, OriginLearnerMax}

\* Witness of C20: outside dev and prod, localhost is echoed; and an origin
\* containing .vercel.app gets the empty string there.
CorsStagingWitness ==
  \E c \in Clients :
    /\ req[c].via = "corsMiddleware" /\ environment = "staging"
    /\ req[c].origin.present
    /\ Includes(req[c].origin.value, VercelApp)
    /\ resp[c].headers.allowOrigin = <<>>

IsHttpList(r) == r.via = "http" /\ r.method = "GET" /\ r.path = ItemsMount

\* C18 as stated, its last part: GET /api/items responds with a 500 error
\* envelope only when the store call fails.
ListFailsOnlyWhenStoreFails ==
  \A c \in Clients :
    (Done(c) /\ IsHttpList(req[c]) /\ resp[c].status # 200)
      => upstream[c] # NoError

\* C18, amended: GET /api/items responds 200 with a JSON array of the stored
\* items whenever the store call succeeds, the empty array when the store
\* holds no items (also when the reply has no Items field); it responds
\* with a 500 error envelope only when the store call fails or when
\* SAMPLE_TABLE is not set, in which case no store call is made.
ListRespondsArrayOr500 ==
  \A c \in Clients :
    (Done(c) /\ IsHttpList(req[c]))
      => /\ StoreOk(c) =>
              /\ resp[c].status = 200
              /\ resp[c].kind = "items"
              /\ resp[c].body = ScanItems(store)
              /\ (\A i \in Ids : store[i] = NoItem) => resp[c].body = {}
         /\ resp[c].status # 200 =>
              /\ resp[c].status = 500
              /\ IsEnvelope(resp[c])
              /\ \/ upstream[c] # NoError /\ calls[c] = 1
                 \/ ~tableName /\ calls[c] = 0

\* Witness of C18: the list of an empty table, answered 200 with [].
EmptyListWitness ==
  \E c \in Clients :
    /\ Done(c) /\ IsHttpList(req[c]) /\ StoreOk(c)
    /\ \A i \in Ids : store[i] = NoItem
    /\ resp[c].status = 200 /\ resp[c].body = {}

\* C19: POST /api/items is idempotent for the same data.  When the store
\* executes a POST whose {id, name} are those of the last successful upsert
\* of the id, the POST is answered 200 with the same id and name as that
\* upsert returned, the table still holds exactly one record for the id,
\* and the number of stored items has not grown.
RepeatedPostIsIdempotent ==
  [][\A c \in Clients : \A i \in Ids :
       (/\ pc[c] = "awaiting" /\ pc'[c] = "ready"
        /\ IsHttpPost(req[c]) /\ upstream'[c] = NoError
        /\ req[c].body.id = Str(i)
        /\ written[i] # NoItem
        /\ written[i].input.id = req[c].body.id
        /\ written[i].input.name = req[c].body.name)
         => /\ resp'[c].status = 200
            /\ resp'[c].body.id = written[i].output.id
            /\ resp'[c].body.name = written[i].output.name
            /\ Cardinality({k \in Ids : store'[k] # NoItem /\ store'[k].id = Str(i)}) = 1
            /\ Cardinality(ScanItems(store')) = Cardinality(ScanItems(store))
            /\ \A k \in Ids \ {i} : store'[k] = store[k]]_vars

\* Witness of C19: the same {id, name} posted twice over HTTP, the second
\* time later than the first, both answered with the same id and name.
RepeatedPostWitness ==
  \E c \in Clients : \E i \in Ids :
    /\ Done(c) /\ IsHttpPost(req[c]) /\ StoreOk(c) /\ req[c].body.id = Str(i)
    /\ previous[c] # NoItem
    /\ previous[c].input = req[c].body
    /\ previous[c].output.updatedAt < resp[c].body.updatedAt
    /\ resp[c].status = 200
    /\ resp[c].body.name = previous[c].output.name
    /\ Cardinality(ScanItems(store)) = 1

IsHealth(r) == r.via = "http" /\ r.method = "GET" /\ r.path = HealthPath

\* C21: GET /health always responds 200 with status 'ok' and never calls
\* the store: the request is answered in the step that takes it up, with no
\* command sent, whatever the table holds, whether or not SAMPLE_TABLE is
\* set, and whatever the other caller's request is doing (waiting for the
\* store, failed, or a health check of its own).
HealthNeverCallsStore ==
  \A c \in Callers :
    IsHealth(req[c])
      => /\ pc[c] = "ready"
         /\ calls[c] = 0
         /\ cmd[c] = NoCmd
         /\ upstream[c] = NoError
         /\ resp[c].status = 200
         /\ resp[c].kind = "health"
         /\ resp[c].body.status = "ok"
         /\ resp[c].body.timestamp \in 0..clock
         /\ resp[c].body.environment =
              (IF environment = "unset" THEN "dev" ELSE environment)

\* Witness of C21: a health check answered 200 while the other caller's
\* request waits for the store and the table holds a record.
HealthWitness ==
  /\ IsHealth(req["c1"]) /\ resp["c1"].status = 200
  /\ resp["c1"].body.status = "ok"
  /\ pc["c2"] = "awaiting"
  /\ store["a"] # NoItem

\* C22 as stated: a POST whose id is not a string (the number 123) is either
\* rejected with 400 or accepted with a response whose id is a string; no
\* non-string id is returned or stored, and the request ends in no other
\* status.  (Stated for a service whose SAMPLE_TABLE is set.)
NonStringIdRejectedOrConverted ==
  /\ \A c \in Clients :
       (Done(c) /\ IsHttpPost(req[c]) /\ req[c].body.id.t = "number"
          /\ Truthy(req[c].body.name) /\ tableName)
         => \/ resp[c].status = 400
            \/ resp[c].status = 200 /\ resp[c].body.id.t = "string"
  /\ \A i \in Ids : store[i] # NoItem => store[i].id.t = "string"

\* The caller's request is a POST that the store executed on an id that
\* had been upserted before.
UpdatedBy(c, i) ==
  /\ Done(c) /\ IsHttpPost(req[c]) /\ StoreOk(c) /\ req[c].body.id = Str(i)
  /\ previous[c] # NoItem

GetReturnsPostedRecord ==
  \A c \in Clients : \A i \in Ids :
    (Done(c) /\ IsHttpGetById(req[c], i) /\ StoreOk(c) /\ written[i] # NoItem)
      => /\ resp[c].status = 200
         /\ resp[c].body = written[i].output
         /\ resp[c].body.createdAt = written[i].output.createdAt
         /\ resp[c].body.updatedAt = written[i].output.updatedAt

\* Witness of C24: a GET answered with the record of an update, whose
\* createdAt is later than the one the creating POST returned.
GetAfterUpdateWitness ==
  \E c \in Clients : \E i \in Ids :
    /\ Done(c) /\ IsHttpGetById(req[c], i) /\ StoreOk(c) /\ written[i] # NoItem
    /\ resp[c].status = 200
    /\ resp[c].body = written[i].output
    /\ resp[c].body.createdAt > written[i].first

IsOptions(r) == r.via = "http" /\ r.method = "OPTIONS"

\* C25: every OPTIONS request, on any path and with any Origin header, is
\* answered 200 by corsMiddleware with Access-Control-Allow-Methods
\* containing GET and POST; it is not passed on with next(), so no route
\* handler runs and no store command is sent.
OptionsAnsweredByCors ==
  \A c \in Clients :
    IsOptions(req[c])
      => /\ resp[c].by = "corsMiddleware"
         /\ resp[c].status = 200
         /\ ~resp[c].next
         /\ \E k \in DOMAIN resp[c].headers.allowMethods :
              resp[c].headers.allowMethods[k] = "GET"
         /\ \E k \in DOMAIN resp[c].headers.allowMethods :
              resp[c].headers.allowMethods[k] = "POST"
         /\ pc[c] = "ready" /\ calls[c] = 0 /\ cmd[c] = NoCmd
         /\ result[c] = NoResult

\* Witness of C25: an OPTIONS request on a path no route matches, from an
\* origin that is not allowed, answered 200 by corsMiddleware.
OptionsWitness ==
  \E c \in Clients :
    /\ IsOptions(req[c]) /\ req[c].path = InvalidPath
    /\ req[c].origin.present /\ resp[c].headers.allowOrigin = <<>>
    /\ resp[c].status = 200 /\ resp[c].by = "corsMiddleware"

\* C26: the button of the TestPage is disabled exactly while a fetch is in
\* flight, so no more than one fetch is in flight however fast the clicks
\* come; once the fetch has settled, with success or with failure, loading
\* is false again and the button is enabled.
OneFetchAtATime ==
  /\ page.fetches <= 1
  /\ page.fetches = 1 => page.loading /\ Disabled(page)
  /\ page.fetches = 0 => ~page.loading /\ ~Disabled(page)

\* Witness of C26: a fetch has failed and settled; the button is enabled
\* again.
FailedFetchSettledWitness ==
  /\ page.tested /\ page.fetches = 0 /\ Shown(page.error)
  /\ ~page.loading /\ ~Disabled(page)

\* C28: whenever no fetch is in flight the TestPage shows at most one result
\* card (error, success or no-data); in particular a failed run does not
\* show the error card next to the success card of an earlier run.
AtMostOneResultCard ==
  page.fetches = 0 => Cardinality(Cards(page)) <= 1

WaitRunning == wait.pc \in {"checking", "delaying"}

\* What holds at every point of a call of waitForApi.
WaitBounded ==
  /\ wait.checks <= wait.maxAttempts
  /\ wait.healthy >= 1 => wait.pc = "returned" /\ wait.value = "true"
  /\ wait.pc = "checking"
       => wait.delays = wait.checks /\ wait.checks < wait.maxAttempts
  /\ wait.pc = "delaying"
       => wait.delays = wait.checks - 1 /\ wait.checks < wait.maxAttempts
  /\ wait.pc = "returned" /\ wait.value = "true"
       => /\ wait.healthy = 1
          /\ wait.delays = wait.checks - 1
  /\ wait.pc = "returned" /\ wait.value = "false"
       => /\ wait.healthy = 0
          /\ wait.checks = wait.maxAttempts
          /\ wait.delays = IF wait.maxAttempts = 0 THEN 0
                           ELSE wait.maxAttempts - 1

\* C30: a call of waitForApi(maxAttempts, delayMs) returns, after at most
\* maxAttempts health checks: true right after the first check that
\* succeeds, false only after maxAttempts checks that all failed; it waits
\* once between two attempts and not after the last one.
WaitForApiTerminates ==
  /\ []WaitBounded
  /\ WaitRunning ~> (wait.pc = "returned")

\* Witness of C30: a call with at least two attempts has returned false
\* after as many failed checks, with one delay fewer than checks.
WaitGaveUpWitness ==
  /\ wait.pc = "returned" /\ wait.value = "false"
  /\ wait.maxAttempts >= 2
  /\ wait.checks = wait.maxAttempts
  /\ wait.delays = wait.maxAttempts - 1

\* The requests one of the three item routes handles.
IsItemRoute(r) ==
  \/ IsHttpPost(r)
  \/ IsHttpList(r)
  \/ \E i \in Ids \cup {"ghost"} : IsHttpGetById(r, i)

\* The writes to `res` made so far for the request of c.
Writes(c) ==
  IF pc[c] = "awaiting" THEN <<>>
  ELSE IF IsHttpPost(req[c]) THEN PostWrites(req[c].body, result[c])
  ELSE IF IsHttpList(req[c]) THEN ListWrites(result[c])
  ELSE GetWrites(result[c])

ItemFields == {"id", "name", "createdAt", "updatedAt"}

\* The POST of c went through: the store executed its PutCommand.
Posted(c) == Done(c) /\ IsHttpPost(req[c]) /\ StoreOk(c)

\* A record without the time it was stamped.
Unstamped(item) == [item EXCEPT !.createdAt = 0, !.updatedAt = 0]

\* C29: a record written through POST has exactly the fields id, name,
\* createdAt and updatedAt, with id and name as posted and both timestamps
\* read from the server's clock; whatever else the body carries is ignored,
\* so two requests that agree on id and name write and return the same
\* record up to the timestamp.
BodyExtrasIgnored ==
  /\ \A i \in Ids :
       store[i] # NoItem
         => DOMAIN store[i] = ItemFields /\ store[i] = written[i].output
  /\ \A c \in Callers :
       Posted(c)
         => /\ DOMAIN resp[c].body = ItemFields
            /\ resp[c].body.id = req[c].body.id
            /\ resp[c].body.name = req[c].body.name
            /\ resp[c].body.createdAt \in 0..clock
            /\ resp[c].body.updatedAt = resp[c].body.createdAt
  /\ \A c1, c2 \in Callers :
       /\ Posted(c1) /\ Posted(c2)
       /\ req[c1].body.id = req[c2].body.id
       /\ req[c1].body.name = req[c2].body.name
       => Unstamped(resp[c1].body) = Unstamped(resp[c2].body)

\* Witness of C29: two POSTs with the same id and name, one of them with a
\* createdAt of its own and one with a role, both written at the same
\* clock reading and answered with the same record.
BodyExtrasWitness ==
  /\ Posted("c1") /\ Posted("c2")
  /\ req["c1"].body.id = req["c2"].body.id
  /\ req["c1"].body.name = req["c2"].body.name
  /\ "createdAt" \in DOMAIN req["c1"].body
  /\ "role" \in DOMAIN req["c2"].body
  /\ resp["c1"].body = resp["c2"].body
  /\ store["a"] = resp["c1"].body

====
